---- MODULE Spec2Model ----
(***************************************************************************)
(* Model of the multi-model CAPTCHA recogniser of src/index.mjs            *)
(* (class VllmOcr, lines 182-438): the text normaliser _postProcess, the   *)
(* response handling of _callOpenRouter, the voting function _vote, the    *)
(* reporting sort _sortResultsByModelOrder and the dispatcher recognize    *)
(* with its then / catch completion handlers and checkCompletion.          *)
(*                                                                         *)
(* JavaScript strings are sequences of one-character strings, so that the  *)
(* normaliser is computed character by character.  JavaScript null as a    *)
(* returned text is the marker Null, which is no candidate string.         *)
(***************************************************************************)
EXTENDS Integers, Sequences, FiniteSets, TLC

\* Number of configured models the dispatcher is checked with (at most).
NumProviders == 3

\* The number of recognize calls in flight together on one instance.
NumCalls == 2

----------------------------------------------------------------------------
(* Sequence helpers *)

\* Array.prototype.indexOf: the first position of x in s, 0 when absent
\* (positions are 1-based here; JavaScript's -1 is 0).
IndexOf(s, x) ==
  IF \E i \in DOMAIN s : s[i] = x
  THEN CHOOSE i \in DOMAIN s : s[i] = x /\ \A j \in 1..(i - 1) : s[j] # x
  ELSE 0

Range(s) == {s[i] : i \in DOMAIN s}

----------------------------------------------------------------------------
(* _postProcess: text.toUpperCase().replace(/[^A-Z0-9]/g, '') *)

LowerChars == <<"a","b","c","d","e","f","g","h","i","j","k","l","m",
                "n","o","p","q","r","s","t","u","v","w","x","y","z">>
UpperChars == <<"A","B","C","D","E","F","G","H","I","J","K","L","M",
                "N","O","P","Q","R","S","T","U","V","W","X","Y","Z">>
DigitChars == <<"0","1","2","3","4","5","6","7","8","9">>

(* Characters outside ASCII, written by their code points: sharp s, whose  *)
(* upper case is the two letters SS; dotless i, whose upper case is I; e    *)
(* with acute accent, whose upper case is another accented letter.          *)
SpecialUpper(c) ==
  CASE c = "U+00DF" -> <<"S", "S">>
    [] c = "U+0131" -> <<"I">>
    [] c = "U+00E9" -> <<"U+00C9">>
    [] OTHER -> <<c>>

\* String.prototype.toUpperCase on one character: a string of one or more.
ToUpperChar(c) ==
  LET i == IndexOf(LowerChars, c)
  IN IF i = 0 THEN SpecialUpper(c) ELSE <<UpperChars[i]>>

\* The characters the regular expression /[^A-Z0-9]/g leaves in place.
KeptChar(c) == c \in Range(UpperChars) \cup Range(DigitChars)

RECURSIVE toUpperCase(_)
toUpperCase(s) ==
  IF s = <<>> THEN <<>> ELSE ToUpperChar(Head(s)) \o toUpperCase(Tail(s))

\* replace(/[^A-Z0-9]/g, '') without its g flag, and replace without effect.
StripFirstOnly(s) ==
  LET bad == {i \in DOMAIN s : ~KeptChar(s[i])}
  IN IF bad = {} THEN s
     ELSE LET k == CHOOSE i \in bad : \A j \in bad : i <= j
          IN SubSeq(s, 1, k - 1) \o SubSeq(s, k + 1, Len(s))

KeepEverything(s) == s

\* replace(/[^A-Z0-9]/g, ''): removes every character outside A-Z, 0-9.
StripNonAlnum(s) == SelectSeq(s, KeptChar)

(* A JSON value a provider may put where a guess is expected:              *)
(*   [t |-> "str", s |-> characters, n |-> 0]   a string                   *)
(*   [t |-> "null", s |-> <<>>, n |-> 0]        null, or a missing field   *)
(*   [t |-> "num", s |-> <<>>, n |-> k]         the number k               *)
Str(s) == [t |-> "str", s |-> s, n |-> 0]
JsNull == [t |-> "null", s |-> <<>>, n |-> 0]
Num(k) == [t |-> "num", s |-> <<>>, n |-> k]

\* JavaScript truthiness of such a value (the tests !text and parsed.text).
Truthy(v) ==
  CASE v.t = "str" -> v.s # <<>>
    [] v.t = "num" -> v.n # 0
    [] OTHER -> FALSE

\* _postProcess(text): [threw |-> TRUE] when text.toUpperCase is not a
\* function (a truthy value that is no string), else the cleaned string.
_postProcess(v) ==
  IF ~Truthy(v) THEN [threw |-> FALSE, s |-> <<>>]
  ELSE IF v.t # "str" THEN [threw |-> TRUE, s |-> <<>>]
  ELSE [threw |-> FALSE, s |-> StripNonAlnum(toUpperCase(v.s))]

----------------------------------------------------------------------------
(* _callOpenRouter: what one provider call yields for a given behaviour of  *)
(* the network and of the model behind it.                                  *)

\* The absent error field of a successful result.
NoError == "<none>"
\* JavaScript null as the text returned by _vote.
Null == <<"null">>

(* The behaviour of fetch and of the provider for one call:                 *)
(*   net = "abort"   fetch (or the body read) rejects with an AbortError    *)
(*   net = "reject"  fetch rejects with another error (network failure)     *)
(*   net = "status"  a response with response.ok false                      *)
(*   net = "ok"      a response; json tells whether JSON.parse accepts the  *)
(*                   extracted content, and if so hasResults / results /    *)
(*                   text are the fields of the parsed object               *)
Response(net, json, hasResults, results, text) ==
  [net |-> net, json |-> json, hasResults |-> hasResults,
   results |-> results, text |-> text]

NetAbort == Response("abort", FALSE, FALSE, <<>>, JsNull)
NetReject == Response("reject", FALSE, FALSE, <<>>, JsNull)
HttpError == Response("status", FALSE, FALSE, <<>>, JsNull)
BadJson == Response("ok", FALSE, FALSE, <<>>, JsNull)
ResultsBody(vals) == Response("ok", TRUE, TRUE, vals, JsNull)
TextBody(v) == Response("ok", TRUE, FALSE, <<>>, v)

\* parsed.results.map(t => this._postProcess(t))
MapPostProcess(vals) == [i \in DOMAIN vals |-> _postProcess(vals[i])]

\* The mapped strings without the filter.
KeepEmptyGuesses(strs) == strs

\* .filter(t => t) on the mapped strings: the empty string is dropped.
FilterNonEmpty(strs) == SelectSeq(strs, LAMBDA x : x # <<>>)

\* Lines 334-361: [threw, candidates] of the parsing block.
ParseCandidates(resp) ==
  IF ~resp.json THEN [threw |-> TRUE, candidates |-> <<>>]
  ELSE IF resp.hasResults
  THEN LET mapped == MapPostProcess(resp.results)
       IN IF \E i \in DOMAIN mapped : mapped[i].threw
          THEN [threw |-> TRUE, candidates |-> <<>>]
          ELSE [threw |-> FALSE,
                candidates |-> FilterNonEmpty([i \in DOMAIN mapped |-> mapped[i].s])]
  ELSE IF Truthy(resp.text)
  THEN LET processed == _postProcess(resp.text)
       IN IF processed.threw THEN [threw |-> TRUE, candidates |-> <<>>]
          ELSE IF processed.s # <<>>
          THEN [threw |-> FALSE, candidates |-> <<processed.s>>]
          ELSE [threw |-> FALSE, candidates |-> <<>>]
  ELSE [threw |-> FALSE, candidates |-> <<>>]

\* The object a call returns: a success carries no error field.
Returned(candidates, error) ==
  [rejected |-> FALSE, candidates |-> candidates, error |-> error,
   duration |-> TRUE]

\* _callOpenRouter without the test of lines 363-366: a response without a
\* valid guess is returned as a result with an empty candidate list.
CallWithoutEmptyCheck(resp) ==
  CASE resp.net = "abort" ->
         [rejected |-> TRUE, candidates |-> <<>>, error |-> "AbortError",
          duration |-> FALSE]
    [] resp.net = "reject" -> Returned(<<>>, "fetch failed")
    [] resp.net = "status" -> Returned(<<>>, "API Error")
    [] OTHER ->
         LET p == ParseCandidates(resp)
         IN IF p.threw THEN Returned(<<>>, "Failed to parse JSON response")
            ELSE Returned(p.candidates, NoError)

\* _callOpenRouter: the promise rejects only with an AbortError (line 376);
\* every other failure is returned as {candidates: [], error, duration}.
_callOpenRouter(resp) ==
  CASE resp.net = "abort" ->
         [rejected |-> TRUE, candidates |-> <<>>, error |-> "AbortError",
          duration |-> FALSE]
    [] resp.net = "reject" -> Returned(<<>>, "fetch failed")
    [] resp.net = "status" -> Returned(<<>>, "API Error")
    [] OTHER ->
         LET p == ParseCandidates(resp)
         IN IF p.threw THEN Returned(<<>>, "Failed to parse JSON response")
            ELSE IF Len(p.candidates) = 0
            THEN Returned(<<>>, "JSON response missing results array or text field")
            ELSE Returned(p.candidates, NoError)

----------------------------------------------------------------------------
(* _vote and _sortResultsByModelOrder *)

\* The number a string of decimal digits denotes.
RECURSIVE DigitsValue(_)
DigitsValue(s) ==
  IF s = <<>> THEN 0
  ELSE 10 * DigitsValue(SubSeq(s, 1, Len(s) - 1)) + (IndexOf(DigitChars, s[Len(s)]) - 1)

\* An object key that is an array index ("0", "7", "12", not "07"): such
\* keys are enumerated first, in ascending numeric order, by Object.entries.
IsIndexKey(s) ==
  /\ s # <<>>
  /\ \A i \in DOMAIN s : s[i] \in Range(DigitChars)
  /\ (Len(s) = 1 \/ s[1] # "0")
  /\ Len(s) <= 9

\* Position at which a key that is not yet in the object is enumerated.
NewKeyPos(entries, key) ==
  IF IsIndexKey(key)
  THEN 1 + Cardinality({i \in DOMAIN entries :
                          /\ IsIndexKey(entries[i].key)
                          /\ DigitsValue(entries[i].key) < DigitsValue(key)})
  ELSE Len(entries) + 1

\* counts[cand] = 1: a string is marked as seen, not counted.
MarkSeen(entries, cand) ==
  LET i == IndexOf([j \in DOMAIN entries |-> entries[j].key], cand)
  IN IF i # 0
     THEN entries
     ELSE LET pos == NewKeyPos(entries, cand)
          IN SubSeq(entries, 1, pos - 1) \o <<[key |-> cand, n |-> 1]>>
             \o SubSeq(entries, pos, Len(entries))

\* counts[cand] = (counts[cand] || 0) + 1, on the list Object.entries(counts).
Increment(entries, cand) ==
  LET i == IndexOf([j \in DOMAIN entries |-> entries[j].key], cand)
  IN IF i # 0
     THEN [entries EXCEPT ![i].n = @ + 1]
     ELSE LET pos == NewKeyPos(entries, cand)
          IN SubSeq(entries, 1, pos - 1) \o <<[key |-> cand, n |-> 1]>>
             \o SubSeq(entries, pos, Len(entries))

RECURSIVE CountCandidates(_, _)
\* for (const cand of result.candidates) counts[cand]++      (lines 396-398)
CountCandidates(cands, entries) ==
  IF cands = <<>> THEN entries
  ELSE CountCandidates(Tail(cands), Increment(entries, Head(cands)))

RECURSIVE CountVotes(_, _)
\* for (const result of results) ...                         (lines 394-400)
CountVotes(results, entries) ==
  IF results = <<>> THEN entries
  ELSE CountVotes(Tail(results),
                  IF Len(Head(results).candidates) > 0
                  THEN CountCandidates(Head(results).candidates, entries)
                  ELSE entries)

\* The comparator reversed (a[1] - b[1]): ascending counts.
InsertByCountAscending(e, sorted) ==
  LET before == {i \in DOMAIN sorted : sorted[i].n < e.n}
      k == Cardinality(before)
  IN SubSeq(sorted, 1, k) \o <<e>> \o SubSeq(sorted, k + 1, Len(sorted))

\* Inserts e into a list sorted by count descending, before the first entry
\* whose count is not greater (Array.prototype.sort is stable).
InsertByCount(e, sorted) ==
  LET before == {i \in DOMAIN sorted : sorted[i].n > e.n}
      k == Cardinality(before)
  IN SubSeq(sorted, 1, k) \o <<e>> \o SubSeq(sorted, k + 1, Len(sorted))

RECURSIVE SortByCount(_)
\* Object.entries(counts).sort((a, b) => b[1] - a[1])
SortByCount(entries) ==
  IF entries = <<>> THEN <<>>
  ELSE InsertByCount(Head(entries), SortByCount(Tail(entries)))

\* The candidates with the maximum number of votes (lines 407-412).
TopCandidates(sortedCandidates) ==
  LET maxVotes == sortedCandidates[1].n
      top == SelectSeq(sortedCandidates, LAMBDA e : e.n = maxVotes)
  IN [i \in DOMAIN top |-> top[i].key]

\* A lookup that finds no result for any model.
FindNothing(results, model) == 0

\* The result that arrived first, whatever model it is of.
FindByArrival(results, model) ==
  IF Len(results) = 0 THEN 0 ELSE 1

\* results.find(r => r.model === model): position of the first such result.
FindByModel(results, model) ==
  IndexOf([i \in DOMAIN results |-> results[i].model], model)

\* The last instead of the first top candidate of one result.
LastTopOf(cands, top) ==
  LET hits == {i \in DOMAIN cands : cands[i] \in Range(top)}
  IN IF hits = {} THEN Null
     ELSE cands[CHOOSE i \in hits : \A j \in hits : i >= j]

\* The first candidate of one result that is a top candidate, else Null.
FirstTopOf(cands, top) ==
  LET hits == {i \in DOMAIN cands : cands[i] \in Range(top)}
  IN IF hits = {} THEN Null
     ELSE cands[CHOOSE i \in hits : \A j \in hits : i <= j]

\* A tie-break without the walk of lines 421-434: the first tied string in
\* the order of the counts, whichever provider proposed it.
TieBreakIgnoringPriority(models, m, results, top) == top[1]

RECURSIVE TieBreak(_, _, _, _)
\* for (const model of this.models) ...                      (lines 421-437)
TieBreak(models, m, results, top) ==
  IF m > Len(models) THEN top[1]
  ELSE LET r == FindByModel(results, models[m])
           hit == IF r = 0 THEN Null ELSE FirstTopOf(results[r].candidates, top)
       IN IF hit # Null THEN hit
          ELSE TieBreak(models, m + 1, results, top)

\* _vote without the tie-break of lines 419-437: a tie yields null.
VoteWithoutTieBreak(models, results) ==
  LET sortedCandidates == SortByCount(CountVotes(results, <<>>))
  IN IF Len(sortedCandidates) = 0 THEN Null
     ELSE LET topCandidates == TopCandidates(sortedCandidates)
          IN IF Len(topCandidates) = 1 THEN topCandidates[1] ELSE Null

\* _vote(results) for the configured list this.models.
_vote(models, results) ==
  LET sortedCandidates == SortByCount(CountVotes(results, <<>>))
  IN IF Len(sortedCandidates) = 0 THEN Null
     ELSE LET topCandidates == TopCandidates(sortedCandidates)
          IN IF Len(topCandidates) = 1 THEN topCandidates[1]
             ELSE TieBreak(models, 1, results, topCandidates)

\* this.models.indexOf(a.model) - this.models.indexOf(b.model) as sort key.
InsertByModel(models, r, sorted) ==
  LET before == {i \in DOMAIN sorted :
                   IndexOf(models, sorted[i].model) <= IndexOf(models, r.model)}
      k == Cardinality(before)
  IN SubSeq(sorted, 1, k) \o <<r>> \o SubSeq(sorted, k + 1, Len(sorted))

\* The results returned in the order they were pushed.
ResultsAsCollected(models, results) == results

RECURSIVE _sortResultsByModelOrder(_, _)
\* results.sort(...) by the position of the model in this.models (stable).
_sortResultsByModelOrder(models, results) ==
  IF results = <<>> THEN <<>>
  ELSE InsertByModel(models, results[Len(results)],
                     _sortResultsByModelOrder(models, SubSeq(results, 1, Len(results) - 1)))

----------------------------------------------------------------------------
(* recognize: the dispatcher and its completion handlers *)

VARIABLES
  fastMode,        \* this.fastMode
  models,          \* this.models, the configured list
  input,           \* kind of the argument of recognize
  pc,              \* "called", "dispatched" (all calls started) or "threw"
  call,            \* per position of models: "pending" or "done"
  results,         \* the array results (the returned details is this array)
  globalCounts,    \* the object globalCounts, as its list of entries
  completedCount,
  resolved,
  aborted,         \* signal.aborted
  promise,         \* the promise recognize returns
  returnedDetails, \* copy of the details array at the moment of resolve
  resolveCalls,    \* number of calls of resolve
  abortCalls,      \* number of calls of controller.abort
  firstDone,       \* position of the call whose handler ran first (0: none)
  env,             \* which set of provider behaviours the calls draw from
  handled,         \* the behaviour of the call whose handler ran last
  flights,         \* the recognize calls in flight together on one instance
  probe            \* a value given to _postProcess and what came back

vars == <<fastMode, models, input, pc, call, results, globalCounts,
          completedCount, resolved, aborted, promise, returnedDetails,
          resolveCalls, abortCalls, firstDone, env, handled, flights, probe>>

\* The closure state of one recognize call, as a record.
State ==
  [results |-> results, globalCounts |-> globalCounts,
   completedCount |-> completedCount, resolved |-> resolved,
   aborted |-> aborted, promise |-> promise,
   returnedDetails |-> returnedDetails,
   resolveCalls |-> resolveCalls, abortCalls |-> abortCalls]

Pending == [status |-> "pending", final_text |-> Null]

\* resolve({final_text, details}): only the first call settles the promise.
Resolve(st, text, details) ==
  [st EXCEPT !.resolveCalls = @ + 1,
             !.promise = IF @.status = "pending"
                         THEN [status |-> "fulfilled", final_text |-> text]
                         ELSE @,
             !.returnedDetails = IF st.promise.status = "pending"
                                 THEN details ELSE @]

\* The count compared as if it had not been incremented yet.
CompletionOffByOne(count, n, res) == count = n + 1 /\ ~res

\* completedCount === this.models.length && !resolved          (line 230)
CompletionFinalizes(count, n, res) == count = n /\ ~res

\* checkCompletion                                         (lines 228-238)
checkCompletion(st, mods) ==
  LET st1 == [st EXCEPT !.completedCount = @ + 1]
  IN IF CompletionFinalizes(st1.completedCount, Len(mods), st1.resolved)
     THEN LET finalResult == _vote(mods, st1.results)
              sorted == _sortResultsByModelOrder(mods, st1.results)
          IN Resolve([st1 EXCEPT !.resolved = TRUE, !.results = sorted],
                     finalResult, sorted)
     ELSE st1

\* The test of line 246 without its !resolved.
ShouldTallyIgnoringResolved(res, cands) == Len(cands) > 0

\* !resolved && result.candidates && result.candidates.length > 0 (line 246)
ShouldTally(res, cands) == ~res /\ Len(cands) > 0

\* The threshold of line 253 lowered to a single vote.
ConsensusAtFirstVote(fast, n) == fast /\ n >= 1

\* The test of line 253 without this.fastMode.
ConsensusIgnoringMode(fast, n) == n >= 2

\* this.fastMode && globalCounts[cand] >= 2                      (line 253)
ConsensusReached(fast, n) == fast /\ n >= 2

\* globalCounts[cand] for a key that is present.
CountOf(entries, cand) ==
  entries[IndexOf([j \in DOMAIN entries |-> entries[j].key], cand)].n

\* An early finalization that asks _vote instead of taking cand.
FinalizeEarlyByVote(st, mods, cand) ==
  LET sorted == _sortResultsByModelOrder(mods, st.results)
  IN Resolve([st EXCEPT !.resolved = TRUE, !.aborted = TRUE,
                        !.abortCalls = @ + 1, !.results = sorted],
             _vote(mods, st.results), sorted)

\* An early finalization that returns the string tallied first instead of
\* the one whose count reached the threshold.
FinalizeEarlyWithFirstTallied(st, mods, cand) ==
  LET sorted == _sortResultsByModelOrder(mods, st.results)
  IN Resolve([st EXCEPT !.resolved = TRUE, !.aborted = TRUE,
                        !.abortCalls = @ + 1, !.results = sorted],
             st.globalCounts[1].key, sorted)

\* Lines 254-260: resolved = true; controller.abort(); resolve(...); return.
FinalizeEarly(st, mods, cand) ==
  LET sorted == _sortResultsByModelOrder(mods, st.results)
  IN Resolve([st EXCEPT !.resolved = TRUE, !.aborted = TRUE,
                        !.abortCalls = @ + 1, !.results = sorted],
             cand, sorted)

RECURSIVE TallyLoop(_, _, _, _)
\* for (const cand of result.candidates) ...               (lines 248-263)
\* returned tells whether the handler left through the return of line 260.
TallyLoop(st, mods, fast, cands) ==
  IF cands = <<>> THEN [st |-> st, returned |-> FALSE]
  ELSE LET cand == Head(cands)
       IN IF cand = <<>> THEN TallyLoop(st, mods, fast, Tail(cands))
          ELSE LET st1 == [st EXCEPT !.globalCounts = Increment(@, cand)]
               IN IF ConsensusReached(fast, CountOf(st1.globalCounts, cand))
                  THEN [st |-> FinalizeEarly(st1, mods, cand), returned |-> TRUE]
                  ELSE TallyLoop(st1, mods, fast, Tail(cands))

\* A then handler that gives up on the siblings when its call has failed.
thenHandlerFailFast(st, mods, fast, model, result) ==
  LET resObj == [model |-> model, candidates |-> result.candidates,
                 error |-> result.error, duration |-> result.duration]
      st0 == [st EXCEPT !.results = Append(@, resObj),
                        !.aborted = (@ \/ result.error # NoError)]
  IN IF ShouldTally(st0.resolved, result.candidates)
     THEN LET loop == TallyLoop(st0, mods, fast, result.candidates)
          IN IF loop.returned THEN loop.st ELSE checkCompletion(loop.st, mods)
     ELSE checkCompletion(st0, mods)

\* The then handler of one call                            (lines 242-266)
thenHandler(st, mods, fast, model, result) ==
  LET resObj == [model |-> model, candidates |-> result.candidates,
                 error |-> result.error, duration |-> result.duration]
      st0 == [st EXCEPT !.results = Append(@, resObj)]
  IN IF ShouldTally(st0.resolved, result.candidates)
     THEN LET loop == TallyLoop(st0, mods, fast, result.candidates)
          IN IF loop.returned THEN loop.st ELSE checkCompletion(loop.st, mods)
     ELSE checkCompletion(st0, mods)

\* err.name === 'AbortError' ? 'Skipped (Consensus Reached)' : err.message
CatchError(name) ==
  IF name = "AbortError" THEN "Skipped (Consensus Reached)" ELSE name

\* The catch handler of one call                           (lines 267-274)
catchHandler(st, mods, model, errName) ==
  LET rec == [model |-> model, candidates |-> <<>>,
              error |-> CatchError(errName), duration |-> FALSE]
  IN checkCompletion([st EXCEPT !.results = Append(@, rec)], mods)

----------------------------------------------------------------------------
(* The environment: inputs, configurations and provider behaviours *)

RawAB == <<"a", "b">>
RawCD == <<"C", "D">>
RawCDnoisy == <<"c", "-", "d", " ">>
Raw12 == <<" ", "1", "2">>
RawJunk == <<"-", "?">>

\* What a provider call may come back with (besides being aborted).
Responses ==
  { HttpError,
    ResultsBody(<<Str(RawJunk)>>),
    ResultsBody(<<Str(RawAB)>>),
    ResultsBody(<<Str(RawCD)>>),
    ResultsBody(<<Str(RawCDnoisy), Str(RawAB)>>),
    ResultsBody(<<Str(RawCD), Str(RawCDnoisy), Str(RawAB)>>),
    TextBody(Str(Raw12)) }

\* The ways a call fails without being aborted: the network, the status,
\* the JSON text, a guess that is no string, no field, no valid guess.
FailureResponses ==
  { NetReject,
    HttpError,
    BadJson,
    ResultsBody(<<Num(7)>>),
    TextBody(JsNull),
    ResultsBody(<<Str(RawJunk)>>) }

\* The behaviours of the calls in a run where most calls fail.
MostlyFailing ==
  FailureResponses \cup {ResultsBody(<<Str(RawAB)>>), TextBody(Str(RawCD))}

\* The behaviours of the calls when several recognize calls are in flight.
FewResponses == {ResultsBody(<<Str(RawAB)>>), ResultsBody(<<Str(RawCD)>>)}

\* The behaviours of the calls in the runs checked for termination.
SettlingResponses ==
  {HttpError, ResultsBody(<<Str(RawAB)>>), ResultsBody(<<Str(RawCD)>>)}

\* The behaviours the calls of a run draw from.
ResponsesOf(e) ==
  CASE e = "failures" -> MostlyFailing
    [] e = "few" -> FewResponses
    [] e = "settling" -> SettlingResponses
    [] OTHER -> Responses

\* No value has been given to _postProcess on its own.
NoProbe == [pc |-> "none", text |-> JsNull,
            out |-> [threw |-> FALSE, s |-> <<>>],
            again |-> [threw |-> FALSE, s |-> <<>>]]

\* Buffer, readable path, unreadable path, anything else.
Inputs == {"buffer", "path", "unreadable", "invalid"}

\* Configured lists of pairwise distinct model ids, the empty list included.
ModelLists == {[i \in 1..n |-> i] : n \in 0..NumProviders}

\* A new instance and a call of recognize on it, before its first step.
Setup ==
  /\ fastMode \in BOOLEAN
  /\ models \in ModelLists
  /\ input \in Inputs
  /\ pc = "called"
  /\ call = [i \in DOMAIN models |-> "idle"]
  /\ results = <<>>
  /\ globalCounts = <<>>
  /\ completedCount = 0
  /\ resolved = FALSE
  /\ aborted = FALSE
  /\ promise = Pending
  /\ returnedDetails = <<>>
  /\ resolveCalls = 0
  /\ abortCalls = 0
  /\ firstDone = 0
  /\ handled = NetAbort
  /\ flights = <<>>
  /\ probe = NoProbe

Init == Setup /\ env = "guesses"

\* The same program with providers that mostly fail.
InitFailures == Setup /\ env = "failures"

\* A recognize that takes whatever it is given.
InputNeverChecked(kind) == TRUE

\* Lines 204-217: the argument is checked (and a path read) first.
InputAccepted(kind) == kind \in {"buffer", "path"}

\* A dispatcher that starts the first call only and leaves the others.
StartedFirstOnly(mods) ==
  [i \in DOMAIN mods |-> IF i = 1 THEN "pending" ELSE "idle"]

\* this.models.forEach(model => this._callOpenRouter(...)): one call per
\* element of this.models, all started before forEach returns (lines 240-241)
Started(mods) == [i \in DOMAIN mods |-> "pending"]

\* recognize up to the end of this.models.forEach: the input is validated
\* and, when it is accepted, every call is started (lines 204-241).
Recognize ==
  /\ pc = "called"
  /\ IF InputAccepted(input)
     THEN /\ pc' = "dispatched"
          /\ call' = Started(models)
          /\ promise' = promise
     ELSE /\ pc' = "threw"
          /\ call' = call
          /\ promise' = [status |-> "rejected", final_text |-> Null]
  /\ UNCHANGED <<fastMode, models, input, results, globalCounts,
                 completedCount, resolved, aborted, returnedDetails,
                 resolveCalls, abortCalls, firstDone, env, handled, flights, probe>>

\* The closure state after a handler ran.
Becomes(st) ==
  /\ results' = st.results
  /\ globalCounts' = st.globalCounts
  /\ completedCount' = st.completedCount
  /\ resolved' = st.resolved
  /\ aborted' = st.aborted
  /\ promise' = st.promise
  /\ returnedDetails' = st.returnedDetails
  /\ resolveCalls' = st.resolveCalls
  /\ abortCalls' = st.abortCalls

(* The call at position i resolves and its then handler runs.  A call that  *)
(* had its response before controller.abort() ran (or whose fetch does not  *)
(* observe the signal) still resolves after the abort.                      *)
Then(i) ==
  /\ pc = "dispatched"
  /\ call[i] = "pending"
  /\ \E resp \in ResponsesOf(env) :
       /\ Becomes(thenHandler(State, models, fastMode, models[i], _callOpenRouter(resp)))
       /\ handled' = resp
  /\ call' = [call EXCEPT ![i] = "done"]
  /\ firstDone' = IF firstDone = 0 THEN i ELSE firstDone
  /\ UNCHANGED <<fastMode, models, input, pc, env, flights, probe>>

(* The call at position i rejects and its catch handler runs: only an       *)
(* AbortError leaves _callOpenRouter, and only an aborted signal raises it. *)
Catch(i) ==
  /\ pc = "dispatched"
  /\ call[i] = "pending"
  /\ aborted
  /\ LET out == _callOpenRouter(NetAbort)
     IN /\ out.rejected
        /\ Becomes(catchHandler(State, models, models[i], out.error))
  /\ handled' = NetAbort
  /\ call' = [call EXCEPT ![i] = "done"]
  /\ firstDone' = IF firstDone = 0 THEN i ELSE firstDone
  /\ UNCHANGED <<fastMode, models, input, pc, env, flights, probe>>

Next ==
  \/ Recognize
  \/ \E i \in DOMAIN models : Then(i)
  \/ \E i \in DOMAIN models : Catch(i)

Spec == Init /\ [][Next]_vars

SpecFailures == InitFailures /\ [][Next]_vars

\* The call at position i, if there is such a call, settles and its handler
\* runs: the step of Then(i) or Catch(i), seen on the state of the calls.
Settles(i) ==
  /\ i \in DOMAIN models
  /\ pc = "dispatched"
  /\ call[i] = "pending"
  /\ call' = [call EXCEPT ![i] = "done"]

\* recognize runs up to its return, and no provider call stays pending for
\* ever: its promise is fulfilled or rejected and the handler runs.
EveryCallSettles ==
  /\ WF_vars(Recognize)
  /\ \A i \in 1..NumProviders : WF_call(Settles(i))

InitSettling == Setup /\ env = "settling"

\* The program when every provider call settles.
SpecSettling == InitSettling /\ [][Next]_vars /\ EveryCallSettles

----------------------------------------------------------------------------
(* Several recognize calls in flight on one instance *)

\* The locals a call of recognize creates                    (lines 219-225)
NewFlight ==
  [pc |-> "called",
   call |-> [i \in DOMAIN models |-> "idle"],
   st |-> [results |-> <<>>, globalCounts |-> <<>>, completedCount |-> 0,
           resolved |-> FALSE, aborted |-> FALSE, promise |-> Pending,
           returnedDetails |-> <<>>, resolveCalls |-> 0, abortCalls |-> 0]]

\* this.models of the instance the calls share: three distinct ids, so that
\* a call is still pending when two others have agreed.
SharedModels == <<1, 2, 3>>

\* One instance (this.models, this.fastMode) and NumCalls calls of recognize
\* on it, none of which has run its first step yet.
InitTwo ==
  /\ fastMode \in BOOLEAN
  /\ models = SharedModels
  /\ input = "buffer"
  /\ pc = "shared"
  /\ call = <<>>
  /\ results = <<>>
  /\ globalCounts = <<>>
  /\ completedCount = 0
  /\ resolved = FALSE
  /\ aborted = FALSE
  /\ promise = Pending
  /\ returnedDetails = <<>>
  /\ resolveCalls = 0
  /\ abortCalls = 0
  /\ firstDone = 0
  /\ env = "few"
  /\ handled = NetAbort
  /\ flights = [c \in 1..NumCalls |-> NewFlight]
  /\ probe = NoProbe

\* A signal every call of recognize on the instance would share.
SharedSignal(fs, c) == \E d \in DOMAIN fs : fs[d].st.aborted

\* The signal the provider calls of flight c were given: the signal of the
\* controller created by that call of recognize           (lines 224-225)
SignalOf(fs, c) == fs[c].st.aborted

\* Flight c validates its input and starts its provider calls.
RecognizeIn(c) ==
  /\ flights[c].pc = "called"
  /\ flights' = [flights EXCEPT ![c].pc = "dispatched",
                                ![c].call = [i \in DOMAIN models |-> "pending"]]

\* The then handler of provider call i of flight c runs.
ThenIn(c, i) ==
  /\ flights[c].pc = "dispatched"
  /\ flights[c].call[i] = "pending"
  /\ \E resp \in ResponsesOf(env) :
       flights' = [flights EXCEPT
                     ![c].st = thenHandler(@, models, fastMode, models[i],
                                           _callOpenRouter(resp)),
                     ![c].call[i] = "done"]

\* The catch handler of provider call i of flight c runs.
CatchIn(c, i) ==
  /\ flights[c].pc = "dispatched"
  /\ flights[c].call[i] = "pending"
  /\ SignalOf(flights, c)
  /\ LET out == _callOpenRouter(NetAbort)
     IN /\ out.rejected
        /\ flights' = [flights EXCEPT
                         ![c].st = catchHandler(@, models, models[i], out.error),
                         ![c].call[i] = "done"]

NextTwo ==
  /\ \E c \in DOMAIN flights :
       \/ RecognizeIn(c)
       \/ \E i \in DOMAIN models : ThenIn(c, i)
       \/ \E i \in DOMAIN models : CatchIn(c, i)
  /\ UNCHANGED <<fastMode, models, input, pc, call, results, globalCounts,
                 completedCount, resolved, aborted, promise, returnedDetails,
                 resolveCalls, abortCalls, firstDone, env, handled, probe>>

SpecTwo == InitTwo /\ [][NextTwo]_vars

----------------------------------------------------------------------------
(* _postProcess on its own *)

\* The longest text given to _postProcess.
MaxTextLen == 3

\* A lower-case letter, an upper-case letter, a digit, punctuation, a space
\* and three characters outside ASCII.
TextChars == {"a", "Z", "7", "-", " ", "U+00DF", "U+0131", "U+00E9"}

RECURSIVE TextsUpTo(_)
\* The strings of at most n characters.
TextsUpTo(n) ==
  IF n = 0 THEN {<<>>}
  ELSE LET shorter == TextsUpTo(n - 1)
       IN shorter \cup {Append(t, c) : t \in shorter, c \in TextChars}

\* The values JSON.parse can put where a guess is expected: strings, null
\* (or no field at all), numbers.
GuessValues ==
  {Str(t) : t \in TextsUpTo(MaxTextLen)} \cup {JsNull, Num(0), Num(7)}

InitNormalizer ==
  /\ fastMode = FALSE
  /\ models = <<>>
  /\ input = "buffer"
  /\ pc = "normalizer"
  /\ call = <<>>
  /\ results = <<>>
  /\ globalCounts = <<>>
  /\ completedCount = 0
  /\ resolved = FALSE
  /\ aborted = FALSE
  /\ promise = Pending
  /\ returnedDetails = <<>>
  /\ resolveCalls = 0
  /\ abortCalls = 0
  /\ firstDone = 0
  /\ env = "none"
  /\ handled = NetAbort
  /\ flights = <<>>
  /\ \E v \in GuessValues : probe = [NoProbe EXCEPT !.pc = "given", !.text = v]

\* this._postProcess(t) on a value of the response         (lines 353, 355)
Normalize ==
  /\ probe.pc = "given"
  /\ probe' = [probe EXCEPT !.pc = "normalized", !.out = _postProcess(probe.text)]

\* _postProcess applied to the string it returned.
NormalizeAgain ==
  /\ probe.pc = "normalized"
  /\ ~probe.out.threw
  /\ probe' = [probe EXCEPT !.pc = "twice",
                            !.again = _postProcess(Str(probe.out.s))]

NextNormalizer ==
  /\ Normalize \/ NormalizeAgain
  /\ UNCHANGED <<fastMode, models, input, pc, call, results, globalCounts,
                 completedCount, resolved, aborted, promise, returnedDetails,
                 resolveCalls, abortCalls, firstDone, env, handled, flights>>

SpecNormalizer == InitNormalizer /\ [][NextNormalizer]_vars

----------------------------------------------------------------------------
(* The JSON extraction of _callOpenRouter on its own (lines 339-347).  The  *)
(* content of the message is a sequence of tokens: "{", "}", "F" (a fence   *)
(* of three backticks), "j" (the word json), " " (white space) and "x"      *)
(* (anything else).                                                         *)

\* The longest content given to the extraction.
MaxContentLen == 5

ContentTokens == {"{", "}", "F", "j", " ", "x"}

RECURSIVE ContentsUpTo(_)
\* The contents of at most n tokens.
ContentsUpTo(n) ==
  IF n = 0 THEN {<<>>}
  ELSE LET shorter == ContentsUpTo(n - 1)
       IN shorter \cup {Append(t, c) : t \in shorter, c \in ContentTokens}

\* The first position instead of the last one.
FirstIndexInstead(s, x) == IndexOf(s, x)

\* String.prototype.lastIndexOf: the last position of x in s, 0 when absent.
LastIndexOf(s, x) ==
  IF \E i \in DOMAIN s : s[i] = x
  THEN CHOOSE i \in DOMAIN s : s[i] = x /\ \A j \in (i + 1)..Len(s) : s[j] # x
  ELSE 0

RECURSIVE TrimStart(_)
\* \s* at the start of the capture: leading white space is not captured.
TrimStart(s) ==
  IF s # <<>> /\ Head(s) = " " THEN TrimStart(Tail(s)) ELSE s

RECURSIVE TrimEnd(_)
\* \s* before the closing fence: trailing white space is not captured.
TrimEnd(s) ==
  IF s # <<>> /\ s[Len(s)] = " " THEN TrimEnd(SubSeq(s, 1, Len(s) - 1)) ELSE s

\* content.match(/```(?:json)?\s*([\s\S]*?)\s*```/i): there is a match when
\* the content has two fences; the opening fence is the first one, the lazy
\* capture ends before the next one.
codeBlockMatch(content) ==
  LET fences == {i \in DOMAIN content : content[i] = "F"}
  IN IF Cardinality(fences) < 2 THEN [found |-> FALSE, group |-> <<>>]
     ELSE LET a == CHOOSE i \in fences : \A j \in fences : i <= j
              b == CHOOSE i \in fences \ {a} : \A j \in fences \ {a} : i <= j
              inner == SubSeq(content, a + 1, b - 1)
              untagged == IF inner # <<>> /\ Head(inner) = "j"
                          THEN Tail(inner) ELSE inner
          IN [found |-> TRUE, group |-> TrimEnd(TrimStart(untagged))]

\* Lines 339-347: the string given to JSON.parse (line 349).
ExtractJson(content) ==
  LET m == codeBlockMatch(content)
      jsonString == IF m.found THEN m.group ELSE content
      startIndex == IndexOf(jsonString, "{")
      endIndex == LastIndexOf(jsonString, "}")
  IN IF startIndex # 0 /\ endIndex # 0 /\ endIndex > startIndex
     THEN SubSeq(jsonString, startIndex, endIndex)
     ELSE jsonString

InitExtract ==
  /\ fastMode = FALSE
  /\ models = <<>>
  /\ input = "buffer"
  /\ pc = "extraction"
  /\ call = <<>>
  /\ results = <<>>
  /\ globalCounts = <<>>
  /\ completedCount = 0
  /\ resolved = FALSE
  /\ aborted = FALSE
  /\ promise = Pending
  /\ returnedDetails = <<>>
  /\ resolveCalls = 0
  /\ abortCalls = 0
  /\ firstDone = 0
  /\ env = "none"
  /\ handled = NetAbort
  /\ flights = <<>>
  /\ \E c \in ContentsUpTo(MaxContentLen) :
       probe = [NoProbe EXCEPT !.pc = "content", !.text = Str(c)]

\* The content of a response goes through the extraction.
Extract ==
  /\ probe.pc = "content"
  /\ probe' = [probe EXCEPT !.pc = "extracted", !.out.s = ExtractJson(probe.text.s)]
  /\ UNCHANGED <<fastMode, models, input, pc, call, results, globalCounts,
                 completedCount, resolved, aborted, promise, returnedDetails,
                 resolveCalls, abortCalls, firstDone, env, handled, flights>>

NextExtract == Extract

SpecExtract == InitExtract /\ [][NextExtract]_vars

----------------------------------------------------------------------------
(* Notions the claims are stated with, defined without the code's steps *)

\* Every candidate string some result of rs carries.
AllCandidates(rs) == UNION {Range(rs[r].candidates) : r \in DOMAIN rs}

\* The number of occurrences of s over the candidate lists of rs.
Tally(rs, s) ==
  Cardinality(UNION {{<<r, k>> : k \in {j \in DOMAIN rs[r].candidates :
                                               rs[r].candidates[j] = s}} :
                     r \in DOMAIN rs})

\* The strings with the maximum tally.
TiedTop(rs) ==
  {s \in AllCandidates(rs) :
     \A t \in AllCandidates(rs) : Tally(rs, s) >= Tally(rs, t)}

\* The candidate list of the result of one model (empty when it has none).
CandidatesOfModel(rs, model) ==
  IF \E r \in DOMAIN rs : rs[r].model = model
  THEN rs[CHOOSE r \in DOMAIN rs : rs[r].model = model].candidates
  ELSE <<>>

RECURSIVE PriorityWalk(_, _, _)
\* The candidates in the nested order: models as configured, and inside a
\* model its list as ranked.
PriorityWalk(mods, rs, m) ==
  IF m > Len(mods) THEN <<>>
  ELSE CandidatesOfModel(rs, mods[m]) \o PriorityWalk(mods, rs, m + 1)

\* The first string of the nested walk that is one of the tied top strings.
FirstTiedInWalk(mods, rs) ==
  LET walk == PriorityWalk(mods, rs, 1)
      hits == {k \in DOMAIN walk : walk[k] \in TiedTop(rs)}
  IN walk[CHOOSE k \in hits : \A j \in hits : k <= j]

Failed(r) == r.error # NoError /\ r.candidates = <<>>
Succeeded(r) == r.error = NoError /\ r.candidates # <<>>
AllDone == pc = "dispatched" /\ \A i \in DOMAIN call : call[i] = "done"
Fulfilled == promise.status = "fulfilled"

----------------------------------------------------------------------------
(* Claims *)

\* C1: whenever one string's tally over the collected results is strictly
\* greater than the tally of every other string, _vote returns that string.
C1_UniqueMaximumWins ==
  \A s \in AllCandidates(results) :
    (\A t \in AllCandidates(results) \ {s} : Tally(results, s) > Tally(results, t))
      => _vote(models, results) = s

\* C1 witness: exhaustive mode delivered a 2-against-1 decision.
C1_Witness ==
  /\ ~fastMode /\ Fulfilled /\ Len(results) = 3
  /\ \E s, t \in AllCandidates(results) :
       /\ s # t
       /\ Tally(results, s) = 2 /\ Tally(results, t) = 1
       /\ AllCandidates(results) = {s, t}
       /\ promise.final_text = s

\* C2: when several strings tie at the maximum tally, _vote returns the first
\* tied string of the walk over the models in configured order and, inside a
\* model, over its candidates in ranked order, for every collection order.
C2_TieBrokenByPriorityWalk ==
  Cardinality(TiedTop(results)) >= 2
    => _vote(models, results) = FirstTiedInWalk(models, results)

\* C2 witness: a three-way tie decided for the first configured model, whose
\* result was not the first one collected, and a tie inside one ranked list.
C2_Witness ==
  /\ ~fastMode /\ Fulfilled /\ Len(results) = 3
  /\ Cardinality(TiedTop(results)) = 3
  /\ firstDone = 3
  /\ results[3].candidates # <<>>
  /\ Len(results[1].candidates) = 2
  /\ promise.final_text = results[1].candidates[1]

\* C3: whenever at least one collected result carries a candidate, the
\* decision of _vote is one of the candidate strings of the results.
C3_DecisionIsACandidate ==
  AllCandidates(results) # {}
    => _vote(models, results) \in AllCandidates(results)

\* C3 witness: a delivered decision taken among two different candidates
\* with one failed provider.
C3_Witness ==
  /\ Fulfilled /\ AllDone
  /\ Cardinality(AllCandidates(results)) = 2
  /\ \E r \in DOMAIN results : Failed(results[r])
  /\ promise.final_text \in AllCandidates(results)

\* The error text of a call recorded as skipped.
Skipped == "Skipped (Consensus Reached)"

\* The keys of globalCounts: the strings tallied so far.
Tallied == {globalCounts[j].key : j \in DOMAIN globalCounts}

\* Positions of results whose records were pushed after the early
\* finalization (the array was sorted at that moment, later records follow).
LateRecords == {k \in DOMAIN results : k > Len(returnedDetails)}

\* The early finalization of fast mode has happened.
FinalizedEarly == fastMode /\ aborted

\* The models whose result in rs lists the string s.
ProvidersOf(rs, s) ==
  {rs[r].model : r \in {q \in DOMAIN rs : s \in Range(rs[q].candidates)}}

\* C4: when at least one call was made and every call has failed, recognize
\* has returned normally with final_text null and a details list of one
\* failure record per configured model.
C4_AllFailedGivesNull ==
  (AllDone /\ results # <<>> /\ \A r \in DOMAIN results : Failed(results[r]))
    => /\ Fulfilled
       /\ promise.final_text = Null
       /\ returnedDetails = results
       /\ Len(results) = Len(models)
       /\ \A r \in DOMAIN results : results[r].model \in Range(models)

\* C4 witness: three configured models, all failed, null returned.
C4_Witness ==
  /\ AllDone /\ Len(models) = 3 /\ Len(results) = 3
  /\ \A r \in DOMAIN results : Failed(results[r])
  /\ \E r \in DOMAIN results : results[r].error = "API Error"
  /\ Fulfilled /\ promise.final_text = Null

\* C5: in exhaustive mode recognize has not returned while a call is still
\* pending, and the returned decision is _vote of the results of all models.
C5_ExhaustiveWaitsForAll ==
  (~fastMode /\ promise.status # "pending")
    => /\ pc = "dispatched" => AllDone
       /\ pc = "dispatched" => Len(results) = Len(models)
       /\ pc = "dispatched" => promise.final_text = _vote(models, results)
       /\ ~aborted

\* C5 witness: exhaustive mode returned although two models had agreed
\* before the third, differing, one completed.
C5_Witness ==
  /\ ~fastMode /\ Fulfilled /\ Len(results) = 3 /\ firstDone = 1
  /\ \E s \in AllCandidates(results) :
       /\ ProvidersOf(results, s) = {1, 2}
       /\ promise.final_text = s
  /\ Succeeded(results[3])

\* C6: in fast mode, when the then handler of a model that reports a string
\* already reported by another model runs before any finalization, recognize
\* returns in that step with such a string as final_text.
C6_SecondAgreeingProviderFinalizes ==
  [][\A i \in DOMAIN models :
       (/\ fastMode /\ ~resolved
        /\ call[i] = "pending" /\ call'[i] = "done"
        /\ Range(CandidatesOfModel(results', models[i])) \cap Tallied # {})
         => /\ promise'.status = "fulfilled"
            /\ promise'.final_text
                 \in Range(CandidatesOfModel(results', models[i])) \cap Tallied]_vars

\* C7: in fast mode the early finalization on a string happens only when at
\* least two distinct models have each reported that string.
C7_EarlyFinalNeedsTwoProviders ==
  FinalizedEarly
    => Cardinality(ProvidersOf(returnedDetails, promise.final_text)) >= 2

\* C8: within one recognize call resolve is called at most once and
\* controller.abort at most once, whatever the interleaving of completions.
C8_FinalizedAtMostOnce ==
  /\ resolveCalls <= 1
  /\ abortCalls <= 1
  /\ Fulfilled <=> resolveCalls = 1

\* C8 witness: after an early consensus every call completed and a different
\* string also has two occurrences among the results.
C8_Witness ==
  /\ FinalizedEarly /\ AllDone /\ resolveCalls = 1 /\ abortCalls = 1
  /\ Len(models) = 3 /\ completedCount = 2
  /\ Cardinality(ProvidersOf(returnedDetails, promise.final_text)) = 2
  /\ \E t \in AllCandidates(results) :
       t # promise.final_text /\ Tally(results, t) >= 2

\* C9: in fast mode every call that completes after the early finalization
\* is recorded as skipped, whatever it returned.
C9_LateCallsRecordedSkipped ==
  FinalizedEarly
    => \A k \in LateRecords :
         results[k].error = Skipped /\ results[k].candidates = <<>>

\* C10: once recognize has finalized, a call that completes later adds
\* nothing to the tally and does not change the returned decision.
C10_LateCallsNotCounted ==
  [][resolved => (globalCounts' = globalCounts /\ promise' = promise)]_vars

\* C10 witness: after the early finalization a call completed with
\* candidates, and they are missing from the tally.
C10_Witness ==
  /\ FinalizedEarly /\ Fulfilled /\ Len(models) = 3
  /\ Cardinality(ProvidersOf(returnedDetails, promise.final_text)) = 2
  /\ \E k \in LateRecords : \E s \in Range(results[k].candidates) :
       s \notin Tallied

\* The decision as a function of the per-model results alone: null without
\* any candidate, else the first string of the priority walk among those
\* with the maximum tally (the only one, when the maximum is not shared).
Decision(mods, rs) ==
  IF AllCandidates(rs) = {} THEN Null ELSE FirstTiedInWalk(mods, rs)

\* C11: in fast mode, when no string has two votes, recognize has returned
\* only after every call completed, without aborting, and its decision is
\* the decision exhaustive mode gives for the same results.
C11_FastWithoutConsensusIsExhaustive ==
  (/\ fastMode /\ Fulfilled
   /\ \A s \in AllCandidates(results) : Tally(results, s) < 2)
    => /\ AllDone /\ ~aborted
       /\ Len(results) = Len(models)
       /\ promise.final_text = _vote(models, results)
       /\ promise.final_text = Decision(models, results)

\* C11 witness: fast mode returned a three-way tie after all three calls.
C11_Witness ==
  /\ fastMode /\ Fulfilled /\ ~aborted /\ Len(results) = 3
  /\ Cardinality(AllCandidates(results)) = 3
  /\ \A r \in DOMAIN results : Len(results[r].candidates) = 1
  /\ promise.final_text = results[1].candidates[1]

\* The position of the model of each entry is non-decreasing along rs.
InModelOrder(mods, rs) ==
  \A a, b \in DOMAIN rs :
    a < b => IndexOf(mods, rs[a].model) <= IndexOf(mods, rs[b].model)

\* C12: in both modes and for every completion order, the details list
\* recognize returns is in the configured order of the models.
C12_DetailsInConfiguredOrder ==
  Fulfilled => InModelOrder(models, returnedDetails)

\* C12 witness: the third model completed first, the second model second,
\* and fast mode returned them on their consensus with the second in front.
C12_Witness ==
  /\ fastMode /\ Fulfilled /\ aborted /\ firstDone = 3
  /\ Len(returnedDetails) = 2
  /\ returnedDetails[1].model = 2 /\ returnedDetails[2].model = 3

\* rs holds exactly one entry for each configured model and no other entry.
OnePerModel(mods, rs) ==
  /\ Len(rs) = Len(mods)
  /\ \A r \in DOMAIN rs : rs[r].model \in Range(mods)
  /\ \A m \in Range(mods) :
       Cardinality({r \in DOMAIN rs : rs[r].model = m}) = 1

\* C13: in both modes, early finalization included, the details list
\* recognize returns holds exactly one result for each configured model.
C13_OneResultPerModel ==
  Fulfilled => OnePerModel(models, returnedDetails)

\* The details array the caller received: results.sort(...) sorts in place
\* and returns the array results itself, so later pushes show in it.
Details == results

\* C14: once recognize has delivered its result, neither final_text nor the
\* returned details array is changed by calls that complete afterwards.
C14_DecisionIsTerminal ==
  [][Fulfilled => (promise' = promise /\ Details' = Details)]_vars


\* The positions of the calls whose handler runs in this step.
Handling == {i \in DOMAIN call : call[i] = "pending" /\ call'[i] = "done"}

\* The records of rs are all in rs2, which has n records more.
KeptAndGrownBy(rs, rs2, n) ==
  /\ Len(rs2) = Len(rs) + n
  /\ \A j \in DOMAIN rs : \E k \in DOMAIN rs2 : rs2[k] = rs[j]

\* C15: a provider call that fails (network, status, unparsable or unusable
\* response) adds one failed result for its model and nothing else: no
\* sibling call changes state, the signal is not aborted, the tally and the
\* results recorded before are kept, and the promise of recognize is not
\* rejected.
C15_FailureIsContained ==
  [][\A i \in Handling :
       handled' \in FailureResponses =>
         /\ \E k \in DOMAIN results' :
              /\ results'[k].model = models[i]
              /\ Failed(results'[k])
              /\ results'[k].error # Skipped
         /\ KeptAndGrownBy(results, results', 1)
         /\ \A j \in DOMAIN call : j # i => call'[j] = call[j]
         /\ aborted' = aborted /\ abortCalls' = abortCalls
         /\ globalCounts' = globalCounts
         /\ promise'.status # "rejected"
         /\ (promise.status = "fulfilled" => promise' = promise)]_vars

\* One call failed on the network, one on its JSON text, and the third
\* call's guess is the decision of an exhaustive run.
C15_Witness ==
  /\ env = "failures" /\ ~fastMode /\ Fulfilled /\ Len(results) = 3
  /\ results[1].error = "fetch failed"
  /\ results[2].error = "Failed to parse JSON response"
  /\ Succeeded(results[3])
  /\ promise.final_text = results[3].candidates[1]
  /\ firstDone = 3 /\ handled \in FailureResponses


\* C16: in exhaustive mode the outcome does not depend on the order in which
\* the calls complete: details holds the result of each configured model at
\* that model's position, nothing is added to it afterwards, and final_text
\* is the decision computed from the tallies and the configured order alone.
C16_ExhaustiveIsOrderIndependent ==
  (~fastMode /\ Fulfilled) =>
    /\ Len(returnedDetails) = Len(models)
    /\ \A k \in DOMAIN models : returnedDetails[k].model = models[k]
    /\ Details = returnedDetails
    /\ promise.final_text = Decision(models, returnedDetails)

\* The lowest-priority model answered first with AB, the highest-priority
\* model last with CD: the tie goes to CD although AB was discovered first.
C16_Witness ==
  /\ ~fastMode /\ Fulfilled /\ Len(models) = 3 /\ firstDone = 3
  /\ returnedDetails[1].candidates = <<toUpperCase(RawCD)>>
  /\ Failed(returnedDetails[2])
  /\ returnedDetails[3].candidates = <<toUpperCase(RawAB)>>
  /\ promise.final_text = returnedDetails[1].candidates[1]


\* The positions of the provider calls of flight f whose handler has run.
DoneIn(f) == {i \in DOMAIN f.call : f.call[i] = "done"}

\* What flight f holds is explained by its own provider calls alone.
OwnStateOnly(f) ==
  /\ Len(f.st.results) = Cardinality(DoneIn(f))
  /\ f.st.completedCount <= Cardinality(DoneIn(f))
  /\ {f.st.results[k].model : k \in DOMAIN f.st.results}
       = {models[i] : i \in DoneIn(f)}
  /\ \A j \in DOMAIN f.st.globalCounts :
       f.st.globalCounts[j].n <= Tally(f.st.results, f.st.globalCounts[j].key)
  /\ f.st.aborted =>
       \E j \in DOMAIN f.st.globalCounts : f.st.globalCounts[j].n >= 2
  /\ \A k \in DOMAIN f.st.results :
       f.st.results[k].error = Skipped => f.st.aborted
  /\ f.st.resolved = (f.st.promise.status = "fulfilled")
  /\ (f.st.promise.status = "fulfilled" /\ f.st.promise.final_text # Null)
       => f.st.promise.final_text \in AllCandidates(f.st.results)

\* C17: recognize calls in flight together on one instance do not interfere:
\* the results, the counter, the tally, the resolved flag and the signal of
\* each call come from that call's own provider calls; a call is aborted
\* only by a consensus in its own tally and a provider call is skipped only
\* when its own recognize call was aborted.
C17_FlightsDoNotInterfere ==
  \A c \in DOMAIN flights : OwnStateOnly(flights[c])

\* The first call has finalized early on AB and aborted its signal while the
\* second call, with one AB and one CD recorded, still waits for a provider.
C17_Witness ==
  /\ env = "few" /\ fastMode
  /\ flights[1].st.aborted
  /\ flights[1].st.promise = [status |-> "fulfilled", final_text |-> toUpperCase(RawAB)]
  /\ \E i \in DOMAIN models : flights[1].call[i] = "pending"
  /\ ~flights[2].st.aborted
  /\ flights[2].st.promise = Pending
  /\ Len(flights[2].st.results) = 2
  /\ AllCandidates(flights[2].st.results) = {toUpperCase(RawAB), toUpperCase(RawCD)}
  /\ \E i \in DOMAIN models : flights[2].call[i] = "pending"


\* The characters A-Z and 0-9.
AlnumChars == Range(UpperChars) \cup Range(DigitChars)

\* _postProcess has been applied to the probe and has returned a string.
Normalized == probe.pc \in {"normalized", "twice"} /\ ~probe.out.threw

\* C18: whatever text _postProcess is given, the string it returns holds
\* only characters of A-Z and 0-9; a text made of ASCII letters and digits
\* comes back whole, each letter in upper case.
C18_OutputIsUpperAlnum ==
  Normalized =>
    /\ \A i \in DOMAIN probe.out.s : probe.out.s[i] \in AlnumChars
    /\ (\A i \in DOMAIN probe.text.s :
          probe.text.s[i] \in AlnumChars \cup Range(LowerChars))
         => /\ Len(probe.out.s) = Len(probe.text.s)
            /\ \A i \in DOMAIN probe.text.s :
                 probe.out.s[i] = ToUpperChar(probe.text.s[i])[1]

\* A lower-case letter, a hyphen and a sharp s come back as ASS.
C18_Witness ==
  /\ probe.pc = "normalized"
  /\ probe.text = Str(<<"a", "-", "U+00DF">>)
  /\ probe.out = [threw |-> FALSE, s |-> <<"A", "S", "S">>]

\* C19: _postProcess applied to a string it returned returns that string.
C19_NormalizerIsIdempotent ==
  probe.pc = "twice" => (~probe.again.threw /\ probe.again.s = probe.out.s)

\* A text with two characters to remove, normalized twice.
C19_Witness ==
  /\ probe.pc = "twice"
  /\ probe.text = Str(<<"-", "a", "-">>)
  /\ probe.out.s = <<"A">>
  /\ probe.again.s = <<"A">>

\* C20: _postProcess returns a string for every value a response can carry,
\* and the empty string for null, undefined and the empty string.
C20_NormalizerIsTotal ==
  probe.pc = "normalized" =>
    /\ ~probe.out.threw
    /\ (~Truthy(probe.text) => probe.out.s = <<>>)


\* C21: when the argument of recognize is neither a Buffer nor a string,
\* recognize fails (its promise is rejected) and no provider call is ever
\* started: no handler runs and nothing is recorded.
C21_InvalidInputFailsWithoutCalls ==
  (input = "invalid" /\ pc # "called") =>
    /\ pc = "threw"
    /\ promise.status = "rejected"
    /\ \A i \in DOMAIN call : call[i] = "idle"
    /\ results = <<>> /\ completedCount = 0 /\ firstDone = 0

\* recognize was given something else than a Buffer or a string on an
\* instance with three configured models, and has thrown.
C21_Witness ==
  /\ input = "invalid" /\ pc = "threw" /\ Len(models) = 3
  /\ promise.status = "rejected"


\* The response was decoded and carries no guess that survives _postProcess.
NoValidGuess(resp) ==
  /\ resp.net = "ok" /\ resp.json
  /\ ~ParseCandidates(resp).threw
  /\ ParseCandidates(resp).candidates = <<>>

\* C22: every recorded ProviderResult is a success (candidates, no error) or
\* a failure (no candidates, an error), every call whose handler has run has
\* its record, and the call whose response had no valid guess is recorded
\* as a failure.
C22_SuccessOrFailure ==
  [][/\ \A k \in DOMAIN results' :
          Succeeded(results'[k]) \/ Failed(results'[k])
     /\ \A i \in DOMAIN call' :
          call'[i] = "done" => \E k \in DOMAIN results' : results'[k].model = models[i]
     /\ \A i \in Handling :
          NoValidGuess(handled') =>
            \E k \in DOMAIN results' :
              /\ results'[k].model = models[i]
              /\ Failed(results'[k])]_vars

\* A provider answered with a guess of punctuation only, after another
\* provider's success: both records are there.
C22_Witness ==
  /\ env = "failures" /\ handled = ResultsBody(<<Str(RawJunk)>>)
  /\ Len(results) = 2
  /\ Succeeded(results[1])
  /\ Failed(results[2])
  /\ results[2].error = "JSON response missing results array or text field"


\* A non-empty string over A-Z and 0-9.
ValidCandidate(s) ==
  s # <<>> /\ \A i \in DOMAIN s : s[i] \in AlnumChars

\* The strings counted by _vote over the results collected so far.
Counted ==
  LET counts == CountVotes(results, <<>>)
  IN {counts[j].key : j \in DOMAIN counts}

\* C23: every string tallied by the then handlers or counted by _vote, every
\* candidate of a recorded result and every final_text other than null is a
\* non-empty string over A-Z and 0-9.
C23_TalliedStringsAreValid ==
  /\ \A s \in Tallied \cup Counted \cup AllCandidates(results) : ValidCandidate(s)
  /\ (Fulfilled /\ promise.final_text # Null) => ValidCandidate(promise.final_text)

\* A provider listed "c-d " and "ab" and another one only punctuation: the
\* tally holds CD and AB, the second provider has failed, and the decision
\* of the exhaustive run is CD.
C23_Witness ==
  /\ ~fastMode /\ Fulfilled /\ Len(results) = 2
  /\ results[1].candidates = <<toUpperCase(RawCD), toUpperCase(RawAB)>>
  /\ results[2].error = "JSON response missing results array or text field"
  /\ promise.final_text = toUpperCase(RawCD)
  /\ Tallied = {toUpperCase(RawCD), toUpperCase(RawAB)}


\* C24: every failed result carries an error description and the elapsed
\* time of its call.
C24_FailedResultsCarryDuration ==
  \A k \in DOMAIN results :
    Failed(results[k]) => (results[k].error # NoError /\ results[k].duration)


\* The number of records of rs that are of the model m.
RecordsOf(rs, m) == Cardinality({k \in DOMAIN rs : rs[k].model = m})

\* C25: every configured model is called once: the calls are all started in
\* the one step of recognize, before any handler runs; a handler runs for a
\* call once, also when the call has failed, and leaves one record; a call
\* whose handler has run is never started again.
C25_EachProviderCalledOnce ==
  [][/\ (\E i \in DOMAIN call : call[i] = "idle" /\ call'[i] # "idle")
          => \A j \in DOMAIN call : call[j] = "idle" /\ call'[j] = "pending"
     /\ Handling # {} => \A j \in DOMAIN call : call[j] # "idle"
     /\ \A i \in DOMAIN call : call[i] = "done" => call'[i] = "done"
     /\ \A i \in DOMAIN call' :
          RecordsOf(results', models[i]) = IF call'[i] = "done" THEN 1 ELSE 0]_vars

\* The first call to complete has failed while the two others are pending:
\* it stays done with its one record.
C25_Witness ==
  /\ Len(models) = 3 /\ pc = "dispatched"
  /\ call = <<"pending", "done", "pending">>
  /\ Len(results) = 1 /\ Failed(results[1]) /\ results[1].model = 2


\* The count _vote holds for the string s over rs (0: s is not a key).
VoteCount(rs, s) ==
  LET counts == CountVotes(rs, <<>>)
      at == {j \in DOMAIN counts : counts[j].key = s}
  IN IF at = {} THEN 0 ELSE counts[CHOOSE j \in at : TRUE].n

\* C26: the count _vote holds for a string is the number of occurrences of
\* that string over the candidate lists of the results; no string has two
\* entries, and a failed result adds nothing.
C26_VoteCountsOccurrences ==
  LET counts == CountVotes(results, <<>>)
  IN /\ \A j \in DOMAIN counts : counts[j].n = Tally(results, counts[j].key)
     /\ {counts[j].key : j \in DOMAIN counts} = AllCandidates(results)
     /\ \A i, j \in DOMAIN counts : counts[i].key = counts[j].key => i = j

\* An exhaustive run: one provider ranked CD, CD and AB, one gave AB, one
\* failed: CD and AB are both counted twice.
C26_Witness ==
  /\ ~fastMode /\ Fulfilled /\ Len(results) = 3
  /\ Len(results[1].candidates) = 3
  /\ Failed(results[2])
  /\ results[3].candidates = <<toUpperCase(RawAB)>>
  /\ VoteCount(results, toUpperCase(RawAB)) = 2
  /\ VoteCount(results, toUpperCase(RawCD)) = 2


\* globalCounts[s] || 0
TalliedCount(entries, s) ==
  LET at == {j \in DOMAIN entries : entries[j].key = s}
  IN IF at = {} THEN 0 ELSE entries[CHOOSE j \in at : TRUE].n

\* The positions of the list cands at which the string there, counted on top
\* of the tally entries, has its second vote.
SecondVoteAt(entries, cands) ==
  {k \in DOMAIN cands :
     TalliedCount(entries, cands[k])
       + Cardinality({j \in 1..k : cands[j] = cands[k]}) >= 2}

\* The candidate list of the record of model m in rs.
ListOf(rs, m) == rs[FindByModel(rs, m)].candidates

RECURSIVE ReplayFast(_, _, _)
\* The then handlers of fast mode run for the records recs, in that order.
ReplayFast(st, mods, recs) ==
  IF recs = <<>> THEN st
  ELSE ReplayFast(thenHandler(st, mods, TRUE, Head(recs).model,
                              Returned(Head(recs).candidates, Head(recs).error)),
                  mods, Tail(recs))

\* C27: in fast mode no string has two votes while the call is unresolved,
\* and the step that finalizes early takes the first string, in the order
\* of the completing provider's list, whose second vote that list casts.
C27_FirstSecondVoteWins ==
  [][/\ (fastMode /\ ~resolved) =>
          \A j \in DOMAIN globalCounts : globalCounts[j].n < 2
     /\ (fastMode /\ ~resolved /\ resolved' /\ aborted') =>
          \A i \in Handling :
            LET cands == ListOf(results', models[i])
                hits == SecondVoteAt(globalCounts, cands)
            IN /\ hits # {}
               /\ promise'.final_text =
                    cands[CHOOSE k \in hits : \A j \in hits : k <= j]]_vars

\* Model 1 said AB, model 3 ranked CD before AB and completed second: AB was
\* the decision.  Model 2 said CD and completed last; had the handlers run
\* in the order 2, 3, 1 the decision would have been CD.
C27_Witness ==
  /\ fastMode /\ Fulfilled /\ aborted /\ AllDone /\ Len(results) = 3
  /\ results[1].model = 1 /\ results[1].candidates = <<toUpperCase(RawAB)>>
  /\ results[2].model = 3
  /\ results[2].candidates = <<toUpperCase(RawCD), toUpperCase(RawAB)>>
  /\ results[3].model = 2 /\ results[3].candidates = <<toUpperCase(RawCD)>>
  /\ promise.final_text = toUpperCase(RawAB)
  /\ ReplayFast(NewFlight.st, models, <<results[3], results[2], results[1]>>).promise
       = [status |-> "fulfilled", final_text |-> toUpperCase(RawCD)]


\* The text in which the braces are looked for: the content of the fenced
\* block when there is one, else the whole content.
Considered(content) ==
  IF codeBlockMatch(content).found THEN codeBlockMatch(content).group ELSE content

\* The text t has an opening brace with a closing brace after it.
HasBracePair(t) ==
  \E i, j \in DOMAIN t : i < j /\ t[i] = "{" /\ t[j] = "}"

\* out is the part of t from its first opening to its last closing brace.
IsBraceSpan(t, out) ==
  \E i, j \in DOMAIN t :
    /\ i < j /\ t[i] = "{" /\ t[j] = "}"
    /\ \A k \in 1..(i - 1) : t[k] # "{"
    /\ \A k \in (j + 1)..Len(t) : t[k] # "}"
    /\ out = SubSeq(t, i, j)

\* C28 as stated: the decoded string is the span from the first opening to
\* the last closing brace (inside the fenced block when there is one), and
\* the raw content when there is no such pair of braces.
C28_BraceSpanOrRawText ==
  probe.pc = "extracted" =>
    IF HasBracePair(Considered(probe.text.s))
    THEN IsBraceSpan(Considered(probe.text.s), probe.out.s)
    ELSE probe.out.s = probe.text.s

\* C28, amended: the decoded string is the span from the first opening to
\* the last closing brace of the text considered (the fenced block when
\* there is one, else the raw content), and that text unchanged when it has
\* no such pair of braces.
C28_BraceSpanOrConsideredText ==
  probe.pc = "extracted" =>
    IF HasBracePair(Considered(probe.text.s))
    THEN IsBraceSpan(Considered(probe.text.s), probe.out.s)
    ELSE probe.out.s = Considered(probe.text.s)

\* A fenced block tagged json that holds no braces: its content is decoded,
\* without the fences, the tag and the white space.
C28_Witness ==
  /\ probe.pc = "extracted"
  /\ probe.text.s = <<"F", "j", "x", " ", "F">>
  /\ probe.out.s = <<"x">>


\* The strings _vote finds tied at the maximum count over rs.
TopOf(rs) == TopCandidates(SortByCount(CountVotes(rs, <<>>)))

\* The walk of lines 421-434 returns: some configured model has a result
\* with a candidate among the tied strings.
WalkReturns(mods, rs, top) ==
  \E m \in DOMAIN mods :
    LET r == FindByModel(rs, mods[m])
    IN r # 0 /\ FirstTopOf(rs[r].candidates, top) # Null

\* C29: whenever the results collected by the dispatcher hold a tie, the
\* walk over the configured models returns a string, so that _vote does not
\* get to its last line; the decision of a run settled by _vote is then the
\* string the walk finds.
C29_FallbackNeverReached ==
  LET top == TopOf(results)
  IN Len(top) > 1 =>
       /\ WalkReturns(models, results, top)
       /\ (Fulfilled /\ ~aborted) =>
            promise.final_text = FirstTiedInWalk(models, results)

\* The first model failed and the two others disagree: _vote walks past the
\* first model and returns the guess of the second.
C29_Witness ==
  /\ ~fastMode /\ Fulfilled /\ Len(models) = 3 /\ firstDone = 3
  /\ Failed(results[1])
  /\ results[2].candidates = <<toUpperCase(RawCD)>>
  /\ results[3].candidates = <<toUpperCase(RawAB)>>
  /\ Len(TopOf(results)) = 2
  /\ promise.final_text = toUpperCase(RawCD)


\* C30: when every provider call settles, a recognize whose input was
\* accepted returns its result.
C30_EventuallyReturns == (pc = "dispatched") ~> Fulfilled


\* The positions of rs whose record succeeded.
SucceededIn(rs) == {r \in DOMAIN rs : Succeeded(rs[r])}

\* The first candidate of the succeeded record of rs whose model comes first
\* in mods, Null when no record succeeded.
FirstOfHighestPriority(mods, rs) ==
  LET ok == {m \in DOMAIN mods : \E r \in SucceededIn(rs) : rs[r].model = mods[m]}
  IN IF ok = {} THEN Null
     ELSE ListOf(rs, mods[CHOOSE m \in ok : \A n \in ok : m <= n])[1]

\* C31: in fast mode, when recognize has returned after every call settled
\* without an early consensus, every tallied string has exactly one vote (in
\* the running tally and in the count of _vote), and final_text is the first
\* candidate of the first configured model that succeeded, null when no
\* model succeeded.
C31_AllSettledPicksHighestPriority ==
  (fastMode /\ Fulfilled /\ ~aborted)
    => /\ \A j \in DOMAIN globalCounts : globalCounts[j].n = 1
       /\ Tallied = AllCandidates(results)
       /\ \A s \in AllCandidates(results) : Tally(results, s) = 1
       /\ promise.final_text = FirstOfHighestPriority(models, results)

\* C31 happens: the first model failed, the second answered two guesses and
\* the third a different one; the second model's first guess is returned.
C31_Witness ==
  /\ fastMode /\ Fulfilled /\ ~aborted /\ Len(results) = 3
  /\ Failed(results[1])
  /\ results[2].candidates = <<toUpperCase(RawCD), toUpperCase(RawAB)>>
  /\ Len(results[3].candidates) = 1
  /\ firstDone = results[3].model
  /\ promise.final_text = toUpperCase(RawCD)


\* The records rs with the candidate list of model m cut after its k-th
\* candidate: what the tally has counted when the handler of m stops there.
TalliedPart(rs, m, k) ==
  [r \in DOMAIN rs |->
     IF rs[r].model = m THEN [rs[r] EXCEPT !.candidates = SubSeq(@, 1, k)]
     ELSE rs[r]]

\* The step of a then handler that finalizes early (lines 254-260).
EarlyFinalization == fastMode /\ ~resolved /\ resolved' /\ aborted'

\* C32 as stated: in fast mode, the candidate returned on early finalization
\* is the decision of _vote for the provider results settled at that moment.
C32_EarlyFinalEqualsVote ==
  [][EarlyFinalization => promise'.final_text = _vote(models, results')]_vars

\* C32, amended: in fast mode, the candidate returned on early finalization
\* is the decision of _vote for the results settled before together with the
\* candidates of the settling result up to the one that reached two votes;
\* it has at least two votes in the count of _vote over the settled results.
C32_EarlyFinalEqualsVoteOfTallied ==
  [][EarlyFinalization =>
       \A i \in Handling :
         LET cands == ListOf(results', models[i])
             hits == SecondVoteAt(globalCounts, cands)
             k == CHOOSE h \in hits : \A j \in hits : h <= j
         IN /\ hits # {}
            /\ promise'.final_text
                 = _vote(models, TalliedPart(results', models[i], k))
            /\ Tally(results', promise'.final_text) >= 2]_vars

\* C32 happens: three providers without repeated guesses have settled, the
\* third handler stopped at its first guess, and _vote over the three
\* results decides for another string than the one returned.
C32_Witness ==
  /\ fastMode /\ Fulfilled /\ aborted /\ Len(returnedDetails) = 3
  /\ \A r \in DOMAIN returnedDetails :
       LET c == returnedDetails[r].candidates
       IN \A j, k \in DOMAIN c : c[j] = c[k] => j = k
  /\ promise.final_text = toUpperCase(RawCD)
  /\ _vote(models, returnedDetails) = toUpperCase(RawAB)

====
